---- MODULE Spec2Model ----
(***************************************************************************)
(* A model of nototools/autofix_for_phase3.py (with the one helper of      *)
(* nototools/tool_utils.py it mutates the file system through).            *)
(*                                                                         *)
(* Text is modelled by what it is made of.  A version string "2.040" is    *)
(* the pair <<major digits, minor digits>> = << <<2>>, <<0,4,0>> >>, so    *)
(* that parsing and formatting are real conversions.  A version-info       *)
(* string is a sequence of one-character strings.                          *)
(***************************************************************************)
EXTENDS Integers, Sequences, FiniteSets, TLC

VARIABLES
  \* -- get_new_version called on its own
  v_font,      \* the font being updated: its version name string
  v_relfont,   \* the released font, or None
  v_nversion,  \* the requested version: None, 'keep' or a version string
  v_result,    \* what the call returned or raised
  v_pc,
  \* -- the version codec called on its own
  c_text,      \* a version string
  c_mm,        \* its [major, minor] list
  c_out,       \* the list formatted again
  c_pc,
  \* -- _check_version_info called on its own
  i_text,      \* the version info string, a sequence of characters
  i_today,     \* datetime.date.today(): <<year, month, day>>
  i_result,    \* what the call returned or raised
  i_pc,
  \* -- autofix_fonts
  args,        \* dstdir aside, the arguments: release_dir, version,
               \* version_info, autohint, dry_run
  files,       \* the font files on disk: font name -> font
  font_names,  \* the list of fonts to fix
  pc,          \* the statement autofix_fonts is at
  idx,         \* the position in font_names of the font being fixed
  info,        \* version_info once checked or computed
  cur_font,    \* the font object fix_font holds
  dirs,        \* the file system at dstdir: dstdir, dstdir/unhinted, dstdir/hinted
  created,     \* the directories this run made
  opened,      \* the fonts opened so far, in order
  saved,       \* the fonts written under dstdir/unhinted so far, in order
  procs,       \* the ttfautohint processes started so far, in order
  error        \* the exception that ended the run

vars == <<v_font, v_relfont, v_nversion, v_result, v_pc,
          c_text, c_mm, c_out, c_pc,
          i_text, i_today, i_result, i_pc,
          args, files, font_names, pc, idx, info, cur_font, dirs, created,
          opened, saved, procs, error>>

-----------------------------------------------------------------------------
(* Bounds *)

\* largest major version number the inputs use
MaxMajor == 3
\* longest major number text (so "02" is an input as well as "2")
MaxMajorLen == 2
\* most fonts in one run of autofix_fonts
MaxFonts == 2
\* how far from the expected value the ascent and descent of the fonts go
MaxDrift == 3

-----------------------------------------------------------------------------
(* Python values *)

\* What a call gives: a returned value, or a raised exception.
Ret(v) == [ok |-> TRUE, val |-> v, err |-> "none"]
Raise(msg) == [ok |-> FALSE, val |-> <<>>, err |-> msg]
NotCalled == [ok |-> FALSE, val |-> <<>>, err |-> "not called"]

\* int() of a digit string
RECURSIVE ToInt(_)
ToInt(ds) ==
  IF ds = <<>> THEN 0
  ELSE ToInt(SubSeq(ds, 1, Len(ds) - 1)) * 10 + ds[Len(ds)]

\* '%d' % n
RECURSIVE Digits(_)
Digits(n) == IF n < 10 THEN <<n>> ELSE Append(Digits(n \div 10), n % 10)

\* '%0<w>d' % n: zero padded on the left to at least w digits
RECURSIVE Pad(_, _)
Pad(ds, w) == IF Len(ds) >= w THEN ds ELSE Pad(<<0>> \o ds, w)

\* Python's list comparison a < b of two [major, minor] lists
MmLess(a, b) == a[1] < b[1] \/ (a[1] = b[1] /\ a[2] < b[2])

-----------------------------------------------------------------------------
(* Version strings *)

\* the version name string of a font that _version_re does not match
NoMatch == <<>>

VersionText(major, minor) == <<major, minor>>

\* _version_re: 'Version (\d+\.\d{2,3})'. A font is modelled by the part of
\* its version name string the group captures, NoMatch when none is.
extract_version(font) ==
  IF font = NoMatch THEN Raise("could not match existing version")
  ELSE Ret(font)

version_str_to_mm(version) == <<ToInt(version[1]), ToInt(version[2])>>

FormatAlwaysThree(mm) == <<Digits(mm[1]), Pad(Digits(mm[2]), 3)>>

mm_to_version_str(mm) ==
  <<Digits(mm[1]), Pad(Digits(mm[2]), IF mm[1] = 1 THEN 2 ELSE 3)>>

-----------------------------------------------------------------------------
(* get_new_version *)

\* the requested version: None, 'keep', or a version string
NoneVersion == [kind |-> "none", text |-> <<>>]
KeepVersion == [kind |-> "keep", text |-> <<>>]
Explicit(t) == [kind |-> "version", text |-> t]

\* the released font: None, or a font
NoFont == [present |-> FALSE, font |-> NoMatch]
SomeFont(f) == [present |-> TRUE, font |-> f]

MaxMinor == 999

V2_040 == VersionText(<<2>>, <<0, 4, 0>>)
V2_000 == VersionText(<<2>>, <<0, 0, 0>>)
V1_000 == VersionText(<<1>>, <<0, 0, 0>>)

\* lines 182-191: a requested version string
CheckAgainstBoth(version, hasRel, rversion, nversion) ==
  LET n_mm == version_str_to_mm(nversion) IN
  IF hasRel /\ MmLess(n_mm, version_str_to_mm(rversion))
  THEN Raise("new version < release version")
  ELSE IF MmLess(n_mm, version_str_to_mm(version))
  THEN Raise("new version < old version")
  ELSE Ret(nversion)

UseRequested(version, hasRel, rversion, nversion) ==
  LET n_mm == version_str_to_mm(nversion) IN
  IF hasRel
  THEN IF MmLess(n_mm, version_str_to_mm(rversion))
       THEN Raise("new version < release version")
       ELSE Ret(nversion)
  ELSE IF MmLess(n_mm, version_str_to_mm(version))
       THEN Raise("new version < old version")
       ELSE Ret(nversion)

\* lines 195-200: bump the release version
BumpUnchecked(rversion) ==
  LET n_mm == version_str_to_mm(rversion) IN
  Ret(mm_to_version_str(<<n_mm[1], (n_mm[2] + 1) % (MaxMinor + 1)>>))

BumpVersion(rversion) ==
  LET n_mm == version_str_to_mm(rversion) IN
  IF n_mm[2] = MaxMinor THEN Raise("cannot bump version")
  ELSE Ret(mm_to_version_str(<<n_mm[1], n_mm[2] + 1>>))

\* lines 202-210: compute from the old phase 2 version
FromOldKeepsOne(version) ==
  LET mm == version_str_to_mm(version) IN
  IF mm[1] = 2 THEN Ret(V2_040)
  ELSE IF mm[1] < 1 THEN Ret(V2_000)
  ELSE IF mm[1] = 1 THEN Ret(V1_000)
  ELSE Raise("old version too high")

FromOldTwoIsNew(version) ==
  LET mm == version_str_to_mm(version) IN
  IF mm[1] <= 2 THEN Ret(V2_000)
  ELSE Raise("old version too high")

FromOldVersion(version) ==
  LET mm == version_str_to_mm(version) IN
  IF mm[1] = 2 THEN Ret(V2_040)
  ELSE IF mm[1] < 2 THEN Ret(V2_000)
  ELSE Raise("old version too high")

\* lines 176-180: 'keep'
KeepBumps(version, hasRel, rversion) ==
  IF hasRel THEN BumpVersion(rversion) ELSE FromOldVersion(version)

KeepRequested(version, hasRel, rversion) ==
  IF hasRel THEN Ret(rversion) ELSE FromOldVersion(version)

get_new_version(font, relfont, nversion) ==
  LET ev == extract_version(font)
      erv == IF relfont.present THEN extract_version(relfont.font)
             ELSE Ret(NoMatch)
  IN
  IF ~ev.ok THEN ev
  ELSE IF ~erv.ok THEN erv
  ELSE
    LET version == ev.val
        rversion == erv.val
        hasRel == relfont.present
    IN
    CASE nversion.kind = "version" ->
           UseRequested(version, hasRel, rversion, nversion.text)
      [] nversion.kind = "keep" ->
           KeepRequested(version, hasRel, rversion)
      [] OTHER ->
           IF hasRel THEN BumpVersion(rversion) ELSE FromOldVersion(version)

-----------------------------------------------------------------------------
(* _check_version_info *)

DigitChars == <<"0", "1", "2", "3", "4", "5", "6", "7", "8", "9">>
IsDigit(c) == \E k \in 1..10 : DigitChars[k] = c
DigitVal(c) == (CHOOSE k \in 1..10 : DigitChars[k] = c) - 1
IsLowerHex(c) == IsDigit(c) \/ c \in {"a", "b", "c", "d", "e", "f"}

\* int() of a string of digit characters
StrToInt(cs) == ToInt([k \in 1..Len(cs) |-> DigitVal(cs[k])])

\* 'GOOG;noto-fonts:'
InfoPrefix ==
  <<"G", "O", "O", "G", ";", "n", "o", "t", "o", "-", "f", "o", "n", "t", "s", ":">>

PrefixLen == Len(InfoPrefix)
HashLen == 12
\* the length of what _version_info_re matches: prefix, 8 digits, ':', hash
InfoLen == PrefixLen + 8 + 1 + HashLen

\* the pattern of _version_info_re holds of the first InfoLen characters
PatternAtStart(s) ==
  /\ Len(s) >= InfoLen
  /\ SubSeq(s, 1, PrefixLen) = InfoPrefix
  /\ \A k \in (PrefixLen + 1)..(PrefixLen + 8) : IsDigit(s[k])
  /\ s[PrefixLen + 9] = ":"
  /\ \A k \in (PrefixLen + 10)..InfoLen : IsLowerHex(s[k])

\* the pattern with a '$' at its end: nothing may follow the hash
PatternWhole(s) == PatternAtStart(s) /\ Len(s) = InfoLen

\* _version_info_re.match(version_info): re.match anchors the pattern at the
\* start of the string only, and the pattern has no '$'
version_info_re_match(s) == PatternAtStart(s)

IsLeap(y) == (y % 4 = 0 /\ y % 100 # 0) \/ y % 400 = 0

DaysInMonth(y, m) ==
  IF m = 2 THEN (IF IsLeap(y) THEN 29 ELSE 28)
  ELSE IF m \in {4, 6, 9, 11} THEN 30 ELSE 31

\* datetime.date(year, month, day) does not raise ValueError
IsDate(y, m, d) ==
  /\ y \in 1..9999
  /\ m \in 1..12
  /\ d \in 1..DaysInMonth(y, m)

\* date a > date b
DateAfter(a, b) ==
  \/ a[1] > b[1]
  \/ (a[1] = b[1] /\ a[2] > b[2])
  \/ (a[1] = b[1] /\ a[2] = b[2] /\ a[3] > b[3])

MinYear == 2017

InfoYear(s) == StrToInt(SubSeq(s, PrefixLen + 1, PrefixLen + 4))
InfoMonth(s) == StrToInt(SubSeq(s, PrefixLen + 5, PrefixLen + 6))
InfoDay(s) == StrToInt(SubSeq(s, PrefixLen + 7, PrefixLen + 8))

CheckInfoAnyYear(version_info, today) ==
  IF ~version_info_re_match(version_info)
  THEN Raise("did not match regex")
  ELSE
    LET year == InfoYear(version_info)
        month == InfoMonth(version_info)
        day == InfoDay(version_info)
    IN
    IF ~IsDate(year, month, day) THEN Raise("is not a valid date")
    ELSE IF DateAfter(<<year, month, day>>, today)
    THEN Raise("is after the current date")
    ELSE Ret(<<>>)

check_version_info(version_info, today) ==
  IF ~version_info_re_match(version_info)
  THEN Raise("did not match regex")
  ELSE
    LET year == InfoYear(version_info)
        month == InfoMonth(version_info)
        day == InfoDay(version_info)
    IN
    IF MinYear <= year
    THEN IF ~IsDate(year, month, day) THEN Raise("is not a valid date")
         ELSE IF DateAfter(<<year, month, day>>, today)
         THEN Raise("is after the current date")
         ELSE Ret(<<>>)
    ELSE Raise("date appears too far in the past")

-----------------------------------------------------------------------------
(* fix_font: the patches *)

\* float(version string), in thousandths: head.fontRevision
FloatOf(text) ==
  ToInt(text[1]) * 1000 + ToInt(text[2]) * (IF Len(text[2]) = 2 THEN 10 ELSE 1)

\* font_data.printable_font_revision(font, 3): '%d.%03d'
printable_font_revision(revision) ==
  <<Digits(revision \div 1000), Pad(Digits(revision % 1000), 3)>>

\* What the patches of fix_font give: the font as patched so far, and the
\* exception raised, if any.
Patched(f) == [ok |-> TRUE, font |-> f, err |-> "none"]
PatchFailed(f, msg) == [ok |-> FALSE, font |-> f, err |-> msg]

Abs(n) == IF n < 0 THEN -n ELSE n

\* lines 315-328: head.fontRevision and the version name string, which is
\* 'Version ' + version + ';' + info
PatchVersion(f, expected_font_revision, version_info) ==
  LET f1 == IF printable_font_revision(f.revision) # expected_font_revision
            THEN [f EXCEPT !.revision = FloatOf(expected_font_revision)]
            ELSE f
  IN
  IF <<f1.version, f1.info>> # <<expected_font_revision, version_info>>
  THEN [f1 EXCEPT !.version = expected_font_revision, !.info = version_info]
  ELSE f1

UpemLarge == 2048
UpemSmall == 1000
AscentLarge == 2163
DescentLarge == -555
AscentSmall == 1069
DescentSmall == -293
MaxDiff == 2

ExpectedAscent(upem) == IF upem = UpemLarge THEN AscentLarge ELSE AscentSmall
ExpectedDescent(upem) == IF upem = UpemLarge THEN DescentLarge ELSE DescentSmall

\* _alert_and_check raises
TooFar(cur_val, new_val, max_diff) == Abs(cur_val - new_val) > max_diff

\* lines 347-351
PatchAscent(f, expected_ascent) ==
  IF f.ascent = expected_ascent THEN Patched(f)
  ELSE IF TooFar(f.ascent, expected_ascent, MaxDiff)
  THEN PatchFailed(f, "unexpectedly large different in expected and actual ascent")
  ELSE Patched([f EXCEPT !.ascent = expected_ascent,
                         !.sTypoAscender = expected_ascent,
                         !.usWinAscent = expected_ascent])

PatchDescentSameSign(f, expected_descent) ==
  IF f.descent = expected_descent THEN Patched(f)
  ELSE IF TooFar(f.descent, expected_descent, MaxDiff)
  THEN PatchFailed(f, "unexpectedly large different in expected and actual descent")
  ELSE Patched([f EXCEPT !.descent = expected_descent,
                         !.sTypoDescender = expected_descent,
                         !.usWinDescent = expected_descent])

\* lines 353-357
PatchDescent(f, expected_descent) ==
  IF f.descent = expected_descent THEN Patched(f)
  ELSE IF TooFar(f.descent, expected_descent, MaxDiff)
  THEN PatchFailed(f, "unexpectedly large different in expected and actual descent")
  ELSE Patched([f EXCEPT !.descent = expected_descent,
                         !.sTypoDescender = expected_descent,
                         !.usWinDescent = -expected_descent])

\* lines 335-357
PatchUIMetrics(f) ==
  IF ~f.noto THEN PatchFailed(f, "not a noto font")
  ELSE IF ~f.ui THEN Patched(f)
  ELSE IF f.upem \notin {UpemLarge, UpemSmall}
  THEN PatchFailed(f, "no expected ui ascent/descent for upem")
  ELSE LET a == PatchAscent(f, ExpectedAscent(f.upem)) IN
       IF ~a.ok THEN a ELSE PatchDescent(a.font, ExpectedDescent(f.upem))

\* lines 311-357: fix_font up to the font it would save
PatchFont(f, relfont, version, version_info) ==
  LET nv == get_new_version(f.version, relfont, version) IN
  IF ~nv.ok THEN PatchFailed(f, nv.err)
  ELSE PatchUIMetrics(PatchVersion(f, nv.val, version_info))

-----------------------------------------------------------------------------
(* autofix_fonts: the checks, and the file system *)

\* _new_version_re: '^(?:keep|[12]\.\d{3})$'
check_version(version) ==
  \/ version.kind \in {"none", "keep"}
  \/ /\ version.text[1] \in {<<1>>, <<2>>}
     /\ Len(version.text[2]) = 3

\* noto_data.HINTED_SCRIPTS: script -> ttfautohint code, "None" for a script
\* ttfautohint has no code for
HINTED_SCRIPTS == [s \in {"Latn", "LGC"} |-> IF s = "Latn" THEN "latn" ELSE "None"]

\* _check_autohint does not raise; "none" is autohint = None
check_autohint(script) ==
  \/ script = "none"
  \/ script = "no-script"
  \/ script \in DOMAIN HINTED_SCRIPTS

\* _autohint_code, of a script that is not None
autohint_code(script) ==
  IF script = "no-script" THEN script
  ELSE IF script \in DOMAIN HINTED_SCRIPTS THEN HINTED_SCRIPTS[script]
  ELSE "not-hinted"

\* tool_utils.ensure_dir_exists(d), of file system ds with cr the directories
\* made so far: the new file system, or ValueError
ensure_dir_exists(ds, cr, d) ==
  IF ds[d] = "dir" THEN [ok |-> TRUE, dirs |-> ds, created |-> cr]
  ELSE IF ds[d] # "absent" THEN [ok |-> FALSE, dirs |-> ds, created |-> cr]
  ELSE [ok |-> TRUE, dirs |-> [ds EXCEPT ![d] = "dir"], created |-> cr \cup {d}]

-----------------------------------------------------------------------------
(* Inputs *)

MajorTexts == {<<d>> : d \in 0..MaxMajor}

\* major texts with leading zeros as well
LongMajorTexts == UNION {[1..n -> 0..MaxMajor] : n \in 1..MaxMajorLen}

MinorTexts ==
  { <<0,0>>, <<3,9>>, <<4,0>>, <<4,1>>, <<9,9>>,
    <<0,0,0>>, <<0,4,0>>, <<0,4,1>>, <<0,9,9>>, <<9,9,8>>, <<9,9,9>> }

FontVersions == {VersionText(a, b) : a \in MajorTexts, b \in MinorTexts}

\* _new_version_re: '^(?:keep|[12]\.\d{3})$' (checked before any font is fixed)
RequestedTexts ==
  {VersionText(<<a>>, b) : a \in {1, 2}, b \in {m \in MinorTexts : Len(m) = 3}}

Fonts == FontVersions \cup {NoMatch}
RelFonts == {NoFont} \cup {SomeFont(f) : f \in Fonts}
Requests == {NoneVersion, KeepVersion} \cup {Explicit(t) : t \in RequestedTexts}

CodecTexts == {VersionText(a, b) : a \in LongMajorTexts, b \in MinorTexts}

\* the pieces a version info string is put together from
InfoLeads == {<<>>, <<" ">>}
InfoPrefixes == {InfoPrefix, <<"g">> \o SubSeq(InfoPrefix, 2, PrefixLen)}
InfoYears ==
  { <<"2","0","1","6">>, <<"2","0","1","7">>, <<"2","0","2","0">>,
    <<"2","1","0","0">>, <<"2","0","1","x">> }
InfoMonths == { <<"0","0">>, <<"0","2">>, <<"1","2">>, <<"1","3">> }
InfoDays ==
  { <<"0","0">>, <<"0","1">>, <<"2","0">>, <<"2","8">>, <<"2","9">>,
    <<"3","1">>, <<"3","2">> }
InfoSeps == { <<":">>, <<";">> }
Hash11 == <<"a","8","a","2","1","5","d","2","e","8","8">>
InfoHashes ==
  { Hash11 \o <<"9">>, Hash11 \o <<"E">>, Hash11, Hash11 \o <<"9", "f">> }
InfoTrails == {<<>>, <<"\n">>, <<"z">>}

InfoTexts ==
  { l \o p \o y \o m \o d \o c \o h \o t :
      l \in InfoLeads, p \in InfoPrefixes, y \in InfoYears, m \in InfoMonths,
      d \in InfoDays, c \in InfoSeps, h \in InfoHashes, t \in InfoTrails }

Todays == { <<2017, 2, 20>>, <<2020, 2, 29>>, <<2100, 12, 31>> }

\* -- autofix_fonts
FontNames == 1..MaxFonts

\* every list of different font names
NameLists ==
  { l \in UNION {[1..n -> FontNames] : n \in 1..MaxFonts} :
      \A a, b \in 1..Len(l) : a # b => l[a] # l[b] }

V1_39 == VersionText(<<1>>, <<3, 9>>)
V2_041 == VersionText(<<2>>, <<0, 4, 1>>)
V3_000 == VersionText(<<3>>, <<0, 0, 0>>)

\* a font: the fields of its tables fix_font reads and writes, whether
\* noto_fonts.get_noto_font knows it and takes it to have UI metrics, and
\* (rel) the font of the same name under the release directory
PlainFont ==
  [ version |-> V1_39, info |-> <<>>, revision |-> 1390,
    upem |-> UpemLarge, ui |-> FALSE, noto |-> TRUE,
    ascent |-> 2189, descent |-> -600,
    sTypoAscender |-> 2189, usWinAscent |-> 2189,
    sTypoDescender |-> -600, usWinDescent |-> 600,
    rel |-> SomeFont(V2_041) ]

\* a UI font whose ascent is too far off to patch
BrokenFont ==
  [ PlainFont EXCEPT !.ui = TRUE, !.ascent = AscentLarge - (MaxDiff + 1),
                     !.descent = DescentLarge, !.rel = NoFont ]

Profiles == {PlainFont, BrokenFont}

\* the fonts of the runs that fix one font: every em-size, and every ascent
\* and descent within MaxDrift of the expected one
WideFonts ==
  { [ PlainFont EXCEPT !.version = v, !.revision = FloatOf(v),
                       !.upem = u, !.ui = ui, !.noto = noto,
                       !.ascent = ExpectedAscent(u) + da,
                       !.descent = ExpectedDescent(u) + dd ] :
      v \in {V1_39, V2_041}, u \in {UpemSmall, 1234, UpemLarge}, ui \in BOOLEAN,
      noto \in BOOLEAN,
      da \in -MaxDrift..MaxDrift, dd \in -MaxDrift..MaxDrift }

InfoHash == Hash11 \o <<"9">>
ValidInfo ==
  InfoPrefix \o <<"2","0","1","7">> \o <<"0","2">> \o <<"2","0">> \o <<":">> \o InfoHash
OldInfo ==
  InfoPrefix \o <<"2","0","1","6">> \o <<"0","2">> \o <<"2","0">> \o <<":">> \o InfoHash
\* what _get_version_info builds from the head commit of the fonts repository
ComputedInfo ==
  InfoPrefix \o <<"2","0","2","0">> \o <<"0","2">> \o <<"2","8">> \o <<":">> \o InfoHash

\* version_info: None, or a string
NoInfo == [given |-> FALSE, text |-> <<>>]
GivenInfo(t) == [given |-> TRUE, text |-> t]

\* datetime.date.today() of the runs of autofix_fonts
Today == <<2020, 2, 29>>

\* dstdir, dstdir/unhinted and dstdir/hinted before the run
DirStates ==
  { [dst |-> "absent", unhinted |-> "absent", hinted |-> "absent"],
    [dst |-> "file", unhinted |-> "absent", hinted |-> "absent"],
    [dst |-> "dir", unhinted |-> "absent", hinted |-> "absent"],
    [dst |-> "dir", unhinted |-> "dir", hinted |-> "dir"] }

BatchArgs ==
  [ release_dir : {"none", "dir", "missing"},
    version : {NoneVersion, KeepVersion, Explicit(V3_000)},
    version_info : {NoInfo, GivenInfo(ValidInfo), GivenInfo(OldInfo)},
    autohint : {"none", "no-script", "Latn", "LGC", "Zzzz"},
    dry_run : BOOLEAN ]

OneFontArgs ==
  [ release_dir : {"none", "dir"},
    version : {NoneVersion, Explicit(V2_041)},
    version_info : {GivenInfo(ValidInfo)},
    autohint : {"none"},
    dry_run : BOOLEAN ]

-----------------------------------------------------------------------------
(* The specifications *)

VersionIdle ==
  /\ v_font = NoMatch
  /\ v_relfont = NoFont
  /\ v_nversion = NoneVersion
  /\ v_result = NotCalled
  /\ v_pc = "idle"

CodecIdle ==
  /\ c_text = NoMatch
  /\ c_mm = <<>>
  /\ c_out = NoMatch
  /\ c_pc = "idle"

InfoIdle ==
  /\ i_text = <<>>
  /\ i_today = <<MinYear, 1, 1>>
  /\ i_result = NotCalled
  /\ i_pc = "idle"

NoError == [stage |-> "none", msg |-> "none"]
Failure(stage, msg) == [stage |-> stage, msg |-> msg]

BatchIdle ==
  /\ args = [release_dir |-> "none", version |-> NoneVersion,
             version_info |-> NoInfo, autohint |-> "none", dry_run |-> TRUE]
  /\ files = <<>>
  /\ font_names = <<>>
  /\ pc = "idle"
  /\ idx = 0
  /\ info = <<>>
  /\ cur_font = PlainFont
  /\ dirs = [dst |-> "absent", unhinted |-> "absent", hinted |-> "absent"]
  /\ created = {}
  /\ opened = <<>>
  /\ saved = <<>>
  /\ procs = <<>>
  /\ error = NoError

b_vars == <<args, files, font_names, pc, idx, info, cur_font, dirs, created,
            opened, saved, procs, error>>
i_vars == <<i_text, i_today, i_result, i_pc>>
v_vars == <<v_font, v_relfont, v_nversion, v_result, v_pc>>
c_vars == <<c_text, c_mm, c_out, c_pc>>

\* -- get_new_version
InitVersion ==
  /\ v_font \in Fonts
  /\ v_relfont \in RelFonts
  /\ v_nversion \in Requests
  /\ v_result = NotCalled
  /\ v_pc = "call"
  /\ CodecIdle
  /\ InfoIdle
  /\ BatchIdle

GetNewVersion ==
  /\ v_pc = "call"
  /\ v_result' = get_new_version(v_font, v_relfont, v_nversion)
  /\ v_pc' = "done"
  /\ UNCHANGED <<v_font, v_relfont, v_nversion, c_vars, i_vars, b_vars>>

NextVersion == GetNewVersion

SpecVersion == InitVersion /\ [][NextVersion]_vars

\* -- the codec
InitCodec ==
  /\ c_text \in CodecTexts
  /\ c_mm = <<>>
  /\ c_out = NoMatch
  /\ c_pc = "parse"
  /\ VersionIdle
  /\ InfoIdle
  /\ BatchIdle

Parse ==
  /\ c_pc = "parse"
  /\ c_mm' = version_str_to_mm(c_text)
  /\ c_pc' = "format"
  /\ UNCHANGED <<c_text, c_out, v_vars, i_vars, b_vars>>

Format ==
  /\ c_pc = "format"
  /\ c_out' = mm_to_version_str(c_mm)
  /\ c_pc' = "done"
  /\ UNCHANGED <<c_text, c_mm, v_vars, i_vars, b_vars>>

NextCodec == Parse \/ Format

SpecCodec == InitCodec /\ [][NextCodec]_vars

\* -- _check_version_info
InitInfo ==
  /\ i_text \in InfoTexts
  /\ i_today \in Todays
  /\ i_result = NotCalled
  /\ i_pc = "call"
  /\ VersionIdle
  /\ CodecIdle
  /\ BatchIdle

CheckVersionInfo ==
  /\ i_pc = "call"
  /\ i_result' = check_version_info(i_text, i_today)
  /\ i_pc' = "done"
  /\ UNCHANGED <<i_text, i_today, v_vars, c_vars, b_vars>>

NextInfo == CheckVersionInfo

SpecInfo == InitInfo /\ [][NextInfo]_vars

\* -- autofix_fonts
InitRun ==
  /\ pc = "start"
  /\ idx = 0
  /\ info = <<>>
  /\ cur_font = PlainFont
  /\ created = {}
  /\ opened = <<>>
  /\ saved = <<>>
  /\ procs = <<>>
  /\ error = NoError
  /\ VersionIdle
  /\ CodecIdle
  /\ InfoIdle

\* a run over a list of fonts
InitBatch ==
  /\ args \in BatchArgs
  /\ font_names \in NameLists
  /\ files \in [FontNames -> Profiles]
  /\ dirs \in DirStates
  /\ InitRun

\* a run that fixes one font
InitOneFont ==
  /\ args \in OneFontArgs
  /\ font_names = <<1>>
  /\ files \in [{1} -> WideFonts]
  /\ dirs = [dst |-> "dir", unhinted |-> "dir", hinted |-> "dir"]
  /\ InitRun

Init == InitBatch \/ InitOneFont

\* raise: the exception leaves autofix_fonts
Fail(stage, msg) ==
  /\ pc' = "failed"
  /\ error' = Failure(stage, msg)

\* the for loop: at font k, or past the last one
LoopAt(k) == IF k <= Len(font_names) THEN "font" ELSE "done"

\* the fonts in the order sort() puts them in
Sorted(names) == SortSeq(names, LAMBDA a, b : a < b)

\* lines 109-113
Start ==
  /\ pc = "start"
  /\ LET e == ensure_dir_exists(dirs, created, "dst") IN
     IF e.ok
     THEN /\ dirs' = e.dirs
          /\ created' = e.created
          /\ font_names' = Sorted(font_names)
          /\ pc' = "reldir"
          /\ UNCHANGED error
     ELSE /\ Fail("dstdir", "exists and is not a directory")
          /\ UNCHANGED <<dirs, created, font_names>>
  /\ UNCHANGED <<args, files, idx, info, cur_font, opened, saved, procs>>
  /\ UNCHANGED <<v_vars, c_vars, i_vars>>

\* lines 115-120
CheckReleaseDir ==
  /\ pc = "reldir"
  /\ IF args.release_dir = "missing"
     THEN Fail("release dir", "release dir does not exist")
     ELSE pc' = "info" /\ UNCHANGED error
  /\ UNCHANGED <<args, files, font_names, idx, info, cur_font, dirs, created,
                 opened, saved, procs>>
  /\ UNCHANGED <<v_vars, c_vars, i_vars>>

\* lines 122-128
CheckInfo ==
  /\ pc = "info"
  /\ IF args.version_info.given
     THEN LET r == check_version_info(args.version_info.text, Today) IN
          IF r.ok
          THEN pc' = "version" /\ info' = args.version_info.text /\ UNCHANGED error
          ELSE Fail("version info", r.err) /\ UNCHANGED info
     ELSE \* _get_version_info: the fonts are not all of the fonts repository,
          \* or git fails, or the head commit gives the string
          \/ Fail("version info", "could not compute version info from fonts")
               /\ UNCHANGED info
          \/ Fail("version info", "git") /\ UNCHANGED info
          \/ pc' = "version" /\ info' = ComputedInfo /\ UNCHANGED error
  /\ UNCHANGED <<args, files, font_names, idx, cur_font, dirs, created,
                 opened, saved, procs>>
  /\ UNCHANGED <<v_vars, c_vars, i_vars>>

CheckVersionSkipped ==
  /\ pc = "version"
  /\ pc' = "autohint"
  /\ UNCHANGED <<args, files, font_names, idx, info, cur_font, dirs, created,
                 opened, saved, procs, error>>
  /\ UNCHANGED <<v_vars, c_vars, i_vars>>

\* line 130
CheckVersion ==
  /\ pc = "version"
  /\ IF check_version(args.version)
     THEN pc' = "autohint" /\ UNCHANGED error
     ELSE Fail("version", "did not match regex")
  /\ UNCHANGED <<args, files, font_names, idx, info, cur_font, dirs, created,
                 opened, saved, procs>>
  /\ UNCHANGED <<v_vars, c_vars, i_vars>>

\* lines 131-135
CheckAutohint ==
  /\ pc = "autohint"
  /\ IF check_autohint(args.autohint)
     THEN pc' = LoopAt(1) /\ idx' = 1 /\ UNCHANGED error
     ELSE Fail("autohint", "not a hintable script") /\ UNCHANGED idx
  /\ UNCHANGED <<args, files, font_names, info, cur_font, dirs, created,
                 opened, saved, procs>>
  /\ UNCHANGED <<v_vars, c_vars, i_vars>>

\* _get_release_font: the font of this name under the release directory
release_font(f) ==
  IF args.release_dir = "none" THEN NoFont ELSE files[f].rel

\* fix_font, lines 310-357: open the font and patch the font object
FixFontPatch ==
  /\ pc = "font"
  /\ LET f == font_names[idx]
         r == PatchFont(files[f], release_font(f), args.version, info)
     IN
     /\ opened' = Append(opened, f)
     /\ cur_font' = r.font
     /\ IF r.ok THEN pc' = "save" /\ UNCHANGED error
        ELSE Fail("patch", r.err)
  /\ UNCHANGED <<args, files, font_names, idx, info, dirs, created, saved, procs>>
  /\ UNCHANGED <<v_vars, c_vars, i_vars>>

\* fix_font, lines 359-369: write the font
FixFontSave ==
  /\ pc = "save"
  /\ LET e == ensure_dir_exists(dirs, created, "unhinted") IN
     IF e.ok
     THEN /\ dirs' = e.dirs
          /\ created' = e.created
          /\ saved' = IF args.dry_run THEN saved
                      ELSE Append(saved, [name |-> font_names[idx], font |-> cur_font])
          /\ IF args.autohint # "none"
             THEN pc' = "hint" /\ UNCHANGED idx
             ELSE pc' = LoopAt(idx + 1) /\ idx' = idx + 1
          /\ UNCHANGED error
     ELSE /\ Fail("save", "exists and is not a directory")
          /\ UNCHANGED <<dirs, created, saved, idx>>
  /\ UNCHANGED <<args, files, font_names, info, cur_font, opened, procs>>
  /\ UNCHANGED <<v_vars, c_vars, i_vars>>

\* fix_font, lines 369-371: autohint_font
FixFontAutohint ==
  /\ pc = "hint"
  /\ LET code == autohint_code(args.autohint)
         e == ensure_dir_exists(dirs, created, "hinted")
     IN
     IF code \in {"not-hinted", "None"} \/ args.dry_run
     THEN /\ pc' = LoopAt(idx + 1) /\ idx' = idx + 1
          /\ UNCHANGED <<dirs, created, procs, error>>
     ELSE IF ~e.ok
     THEN /\ Fail("autohint font", "exists and is not a directory")
          /\ UNCHANGED <<dirs, created, procs, idx>>
     ELSE /\ dirs' = e.dirs
          /\ created' = e.created
          /\ procs' = Append(procs, font_names[idx])
          \* subprocess.check_call: ttfautohint exits with 0, or does not
          /\ \/ pc' = LoopAt(idx + 1) /\ idx' = idx + 1 /\ UNCHANGED error
             \/ Fail("autohint font", "ttfautohint failed") /\ UNCHANGED idx
  /\ UNCHANGED <<args, files, font_names, info, cur_font, opened, saved>>
  /\ UNCHANGED <<v_vars, c_vars, i_vars>>

Next ==
  \/ Start
  \/ CheckReleaseDir
  \/ CheckInfo
  \/ CheckVersion
  \/ CheckAutohint
  \/ FixFontPatch
  \/ FixFontSave
  \/ FixFontAutohint

Spec == Init /\ [][Next]_vars

-----------------------------------------------------------------------------
(* get_new_version: the claims, under SpecVersion *)

\* the call returned or raised, and both fonts had a readable version
VDone ==
  /\ v_pc = "done"
  /\ v_font # NoMatch
  /\ v_relfont.present => v_relfont.font # NoMatch

HasRel == v_relfont.present
CurMm == version_str_to_mm(v_font)
RelMm == version_str_to_mm(v_relfont.font)
ReqMm == version_str_to_mm(v_nversion.text)
NewMm == version_str_to_mm(v_result.val)
MmGeq(a, b) == ~MmLess(a, b)

\* C1, as stated: with no version string requested (None or 'keep'), a
\* returned version is >= the current version or >= the released version,
\* and >= the current version when there is no released version.
C1_Monotonic ==
  (VDone /\ v_nversion.kind # "version" /\ v_result.ok) =>
    IF HasRel THEN MmGeq(NewMm, CurMm) \/ MmGeq(NewMm, RelMm)
    ELSE MmGeq(NewMm, CurMm)

\* C1, amended: the same, except that with no released version a current
\* version 2.m with m > 40 is mapped down to the fixed 2.040.
C1_MonotonicButFixed240 ==
  (VDone /\ v_nversion.kind # "version" /\ v_result.ok) =>
    IF HasRel THEN MmGeq(NewMm, CurMm) \/ MmGeq(NewMm, RelMm)
    ELSE \/ MmGeq(NewMm, CurMm)
         \/ (CurMm[1] = 2 /\ CurMm[2] > 40 /\ v_result.val = V2_040)

C1_Witness ==
  /\ VDone /\ v_nversion.kind = "keep" /\ v_result.ok /\ ~HasRel
  /\ CurMm[1] = 2 /\ CurMm[2] > 40
  /\ MmLess(NewMm, CurMm)

C3_OverflowFails ==
  (VDone /\ HasRel /\ v_nversion.kind # "version") =>
    IF RelMm[2] = MaxMinor THEN v_result = Raise("cannot bump version")
    ELSE (v_nversion.kind = "none") =>
           /\ v_result.ok
           /\ NewMm = <<RelMm[1], RelMm[2] + 1>>
           /\ NewMm[2] <= MaxMinor

\* C3, amended: with a released version (x, 999) and no requested version
\* at all (None) the call fails ('keep' returns the released version); and a
\* bump of a released (x, m) gives exactly (x, m+1) with m+1 <= 999.
C3_OverflowFailsWhenAbsent ==
  (VDone /\ HasRel /\ v_nversion.kind = "none") =>
    IF RelMm[2] = MaxMinor THEN v_result = Raise("cannot bump version")
    ELSE /\ v_result.ok
         /\ NewMm = <<RelMm[1], RelMm[2] + 1>>
         /\ NewMm[2] <= MaxMinor

C3_Witness ==
  /\ VDone /\ HasRel /\ v_nversion.kind = "none"
  /\ RelMm[2] = MaxMinor
  /\ ~v_result.ok

\* C4: with 'keep', a released version is returned unchanged whatever the
\* current version; with no released version the outcome is that of the same
\* call with no requested version.
C4_Keep ==
  (v_pc = "done" /\ v_nversion.kind = "keep") =>
    IF VDone /\ HasRel THEN v_result = Ret(v_relfont.font)
    ELSE v_result = get_new_version(v_font, v_relfont, NoneVersion)

C4_Witness ==
  /\ VDone /\ v_nversion.kind = "keep" /\ HasRel
  /\ MmLess(RelMm, CurMm)
  /\ v_result = Ret(v_relfont.font)

\* C5: with no released and no requested version the result depends on the
\* current major alone: 2 gives 2.040, less than 2 gives 2.000, more than 2
\* fails.
C5_FromOld ==
  (VDone /\ ~HasRel /\ v_nversion.kind = "none") =>
    IF CurMm[1] = 2 THEN v_result = Ret(V2_040)
    ELSE IF CurMm[1] < 2 THEN v_result = Ret(V2_000)
    ELSE ~v_result.ok

C5_Witness ==
  /\ VDone /\ ~HasRel /\ v_nversion.kind = "none"
  /\ CurMm = <<2, 999>>
  /\ v_result = Ret(V2_040)

-----------------------------------------------------------------------------
(* The codec: the claims, under SpecCodec *)

\* a version string as mm_to_version_str writes it: no leading zero in the
\* major, a 2-digit minor after major 1 and a 3-digit minor otherwise
Canonical(text) ==
  /\ (Len(text[1]) = 1 \/ text[1][1] # 0)
  /\ Len(text[2]) = (IF text[1] = <<1>> THEN 2 ELSE 3)

-----------------------------------------------------------------------------
(* _check_version_info: the claim, under SpecInfo *)

\* C7: a string is accepted if and only if the whole of it is
\* 'GOOG;noto-fonts:' + YYYYMMDD + ':' + 12 lowercase hex characters, the
\* year is >= 2017, the date is a calendar date, and the date is not after
\* today.
C7_AcceptsIffWhole ==
  (i_pc = "done") =>
    (i_result.ok <=>
       /\ PatternWhole(i_text)
       /\ InfoYear(i_text) >= MinYear
       /\ IsDate(InfoYear(i_text), InfoMonth(i_text), InfoDay(i_text))
       /\ ~DateAfter(<<InfoYear(i_text), InfoMonth(i_text), InfoDay(i_text)>>,
                     i_today))

\* what the code does: the same, of a string that starts with such text
C7_AcceptsIffStart ==
  (i_pc = "done") =>
    (i_result.ok <=>
       /\ PatternAtStart(i_text)
       /\ InfoYear(i_text) >= MinYear
       /\ IsDate(InfoYear(i_text), InfoMonth(i_text), InfoDay(i_text))
       /\ ~DateAfter(<<InfoYear(i_text), InfoMonth(i_text), InfoDay(i_text)>>,
                     i_today))

-----------------------------------------------------------------------------
(* autofix_fonts: the claims, under Spec *)

\* the arguments one of the checks rejects
BadArgs ==
  \/ args.release_dir = "missing"
  \/ args.version_info = GivenInfo(OldInfo)
  \/ args.version = Explicit(V3_000)
  \/ args.autohint = "Zzzz"

NothingTouched == opened = <<>> /\ saved = <<>> /\ procs = <<>>

FailedIn(stages) == pc = "failed" /\ error.stage \in stages

SavedNames == [k \in 1..Len(saved) |-> saved[k].name]

\* seq is the first Len(seq) of the names, smallest first
InOrder(seq, names) ==
  \A k \in 1..Len(seq) :
    /\ \E j \in 1..Len(names) : names[j] = seq[k]
    /\ Cardinality({j \in 1..Len(names) : names[j] < seq[k]}) = k - 1

\* C8: the checks of the batch all come before the first font is opened,
\* written or hinted, so that nothing is touched when one of them fails; the
\* fonts are then fixed one at a time in sorted order, and an error while
\* fixing font k ends the run with no later font opened or written.
C8_ChecksThenFontsInOrder ==
  /\ ( \/ BadArgs
       \/ pc \in {"start", "reldir", "info", "version", "autohint"}
       \/ FailedIn({"dstdir", "release dir", "version info", "version", "autohint"})
     ) => NothingTouched
  /\ InOrder(opened, font_names)
  /\ InOrder(SavedNames, font_names)
  /\ \A k \in 1..Len(procs) : k < Len(procs) => procs[k] < procs[k + 1]
  /\ Len(saved) <= Len(opened) /\ Len(procs) <= Len(opened)
  /\ pc \in {"font", "done"} =>
        /\ Len(opened) = idx - 1
        /\ ~args.dry_run => Len(saved) = idx - 1
  /\ pc = "save" =>
        /\ Len(opened) = idx
        /\ ~args.dry_run => Len(saved) = idx - 1
  /\ pc = "hint" =>
        /\ Len(opened) = idx
        /\ ~args.dry_run => Len(saved) = idx
  /\ FailedIn({"patch", "save", "autohint font"}) =>
        /\ Len(opened) = idx
        /\ Len(saved) <= idx
  /\ pc = "failed" => ~ENABLED Next

C8_Witness ==
  /\ FailedIn({"patch"})
  /\ Len(font_names) > 1
  /\ idx = 1
  /\ opened = <<font_names[1]>>
  /\ saved = <<>>

\* C9: a dry run changes nothing that persists: it saves no font, makes no
\* directory (dstdir, dstdir/unhinted, dstdir/hinted) and starts no
\* ttfautohint process.
C9_DryRunReadOnly ==
  (args.dry_run /\ pc # "idle") =>
    (created = {} /\ saved = <<>> /\ procs = <<>>)

\* the font fix_font is fixing or has just failed on, as it is on disk
AfterPatch == pc = "save" \/ FailedIn({"patch"})
OrigFont == files[font_names[idx]]
ReachedMetrics ==
  /\ OrigFont.noto
  /\ get_new_version(OrigFont.version, release_font(font_names[idx]),
                     args.version).ok

\* C10: for a UI font of em-size 2048 (2163, -555) or 1000 (1069, -293):
\* an ascent or descent that is as expected changes nothing; one that is off
\* by at most 2 is set to the expected value, the ascent together with
\* sTypoAscender and usWinAscent, the descent together with sTypoDescender
\* and, negated, usWinDescent; one that is off by more fails, and the font is
\* not saved. Any other em-size fails.
C10_UIMetrics ==
  (AfterPatch /\ OrigFont.ui /\ ReachedMetrics) =>
    LET o == OrigFont
        ea == IF o.upem = 2048 THEN 2163 ELSE 1069
        ed == IF o.upem = 2048 THEN -555 ELSE -293
        da == Abs(o.ascent - ea)
        dd == Abs(o.descent - ed)
    IN
    IF o.upem \notin {2048, 1000}
    THEN pc = "failed" /\ font_names[idx] \notin {saved[k].name : k \in 1..Len(saved)}
    ELSE
      /\ pc = "failed" <=> (da > 2 \/ dd > 2)
      /\ pc = "failed" =>
           font_names[idx] \notin {saved[k].name : k \in 1..Len(saved)}
      /\ pc = "save" =>
           /\ cur_font.ascent = ea
           /\ cur_font.descent = ed
           /\ IF da = 0
              THEN /\ cur_font.sTypoAscender = o.sTypoAscender
                   /\ cur_font.usWinAscent = o.usWinAscent
              ELSE /\ cur_font.sTypoAscender = ea
                   /\ cur_font.usWinAscent = ea
           /\ IF dd = 0
              THEN /\ cur_font.sTypoDescender = o.sTypoDescender
                   /\ cur_font.usWinDescent = o.usWinDescent
              ELSE /\ cur_font.sTypoDescender = ed
                   /\ cur_font.usWinDescent = -ed

C10_Witness ==
  /\ pc = "save" /\ OrigFont.ui /\ ReachedMetrics
  /\ OrigFont.upem = 2048
  /\ OrigFont.ascent = 2162 /\ cur_font.ascent = 2163
  /\ OrigFont.descent = -553 /\ cur_font.usWinDescent = 555

====
